---- MODULE Spec2Model ----
(***************************************************************************)
(* Model of VideoPlayer (video_player_windows/windows/video_player.cpp):    *)
(* the playback session controller between the Flutter host (event channel, *)
(* texture registrar) and the Media Foundation engine wrapper.              *)
(*                                                                          *)
(* Three specifications share the variables:                                *)
(*   Spec      - every handler and command of one session runs to          *)
(*               completion (one action per method);                        *)
(*   SpecFrame - frame requests (ObtainDescriptorCallback) and direct       *)
(*               UpdateVideoSize calls, one step per statement, on several  *)
(*               threads;                                                   *)
(*   SpecRace  - engine callbacks on their own threads, one step per read   *)
(*               or write of shared state, against the host thread's        *)
(*               listener attach/detach.                                    *)
(***************************************************************************)
EXTENDS Integers, Sequences, FiniteSets, TLC

VARIABLES
  isInitialized,   \* VideoPlayer::isInitialized
  eventSink,       \* VideoPlayer::_eventSink is non-null
  eventChannel,    \* VideoPlayer::_eventChannel is non-null
  streamHandler,   \* the listen/cancel handlers of Init are installed on the messenger
  textureId,       \* VideoPlayer::_textureId
  m_valid,         \* VideoPlayer::m_valid
  m_windowSize,    \* VideoPlayer::m_windowSize, <<Width, Height>>
  m_descriptor,    \* size the engine last wrote into m_descriptor
  engine,          \* state of the MediaEngineWrapper behind m_mediaEngineWrapper
  op,              \* the operation that ran last (name and arguments)
  emitted,         \* events the last operation passed to _eventSink->Success
  engineCalls,     \* engine calls the last operation issued, in order
  hist,            \* history of the session (never read by the program)
  m_buffer_mutex,  \* owner of m_buffer_mutex, or NoThread
  m_compositionLock, \* owner of m_compositionLock, or NoThread
  mta,             \* thread whose closure the MTA context is running, or NoThread
  fpc,             \* per thread: position inside a frame request / geometry refresh
  flocal,          \* per thread: locals of the frame request in progress
  cpc,             \* per callback thread: pending statements of its handler
  hazard           \* "none", or what became of a use of _eventSink after the
                   \* host thread had cleared it

sessionVars == <<isInitialized, eventSink, eventChannel, streamHandler,
                 textureId, m_valid>>
surfaceVars == <<m_windowSize, m_descriptor>>
obsVars     == <<op, emitted, engineCalls, hist>>
frameVars   == <<m_buffer_mutex, m_compositionLock, mta, fpc, flocal>>
raceVars    == <<cpc, hazard>>
vars == <<isInitialized, eventSink, eventChannel, streamHandler, textureId, m_valid,
          m_windowSize, m_descriptor, engine, op, emitted, engineCalls, hist,
          m_buffer_mutex, m_compositionLock, mta, fpc, flocal, cpc, hazard>>

----------------------------------------------------------------------------
(* Bounds of the model *)

\* media positions range over 0..MaxPos
MaxPos == 2
\* renderer threads issuing frame requests
NumFrameThreads == 2
\* engine callback threads
NumCallbackThreads == 2

----------------------------------------------------------------------------
(* Program constants *)

DefaultWidth == 640
DefaultHeight == 480

BufferingState == {"HAVE_NOTHING", "HAVE_ENOUGH"}

\* threads: renderer threads issue frame requests, the UI thread refreshes
\* the geometry directly, engine threads run the engine's callbacks
NoThread == <<"none", 0>>
UiThread == <<"ui", 0>>
FrameThreads == {<<"frame", i>> : i \in 1..NumFrameThreads}
GeometryThreads == FrameThreads \cup {UiThread}
CallbackThreads == {<<"engine", i>> : i \in 1..NumCallbackThreads}

\* sizes the renderer asks frames for
FrameSizes == {<<1920, 1080>>, <<320, 240>>}
\* what GetWindowRect may report: failure, or a rectangle of this size
WindowRects == {<<w, h>> : w \in {0, 800}, h \in {0, 600}}

\* locals of a frame request or geometry refresh that has not started
NoLocals ==
  [req |-> <<0, 0>>,          \* width, height of the frame request
   descArgs |-> <<0, 0>>,     \* arguments passed to UpdateSurfaceDescriptor
   rectOk |-> FALSE,          \* GetWindowRect succeeded
   rect |-> <<0, 0>>,         \* width, height of the rectangle it reported
   before |-> <<0, 0>>,       \* m_windowSize when UpdateVideoSize was entered
   resizeArgs |-> <<0, 0>>]   \* arguments passed to OnWindowUpdate

----------------------------------------------------------------------------
(* Value conversions.  Every value of the model is a non-negative integer   *)
(* below 2^31, so the integer casts of the source (size_t -> uint32_t,      *)
(* uint32_t -> int32_t, uint64_t -> int64_t, float -> uint32_t) keep the    *)
(* value; int -> float and double -> float round to a 24 bit significand.   *)

RECURSIVE FloatUlp(_)
FloatUlp(n) == IF n < 16777216 THEN 1 ELSE 2 * FloatUlp(n \div 2)

\* static_cast<float>(n): round to nearest, ties to even
ToFloat(n) ==
  LET u == FloatUlp(n)
      r == n % u
      lo == n - r
  IN  IF 2 * r < u THEN lo
      ELSE IF 2 * r > u THEN lo + u
      ELSE IF (lo \div u) % 2 = 0 THEN lo ELSE lo + u

\* static_cast<uint32_t>(x) of a non-negative value below 2^31
ToUint32(x) == x

\* (int32_t)x of a uint32_t below 2^31
ToInt32(x) == x

\* (int64_t)x of a non-negative value below 2^31
ToInt64(x) == x

----------------------------------------------------------------------------
(* The engine behind m_mediaEngineWrapper: it keeps what the last transport *)
(* call set and reports it back.                                            *)

\* media the engine may have been initialised with: none, or one clip
Media == { [duration |-> 0, width |-> 0, height |-> 0],
           [duration |-> 5000, width |-> 1280, height |-> 720] }

\* results GetBufferedRanges may report
BufferedRanges == { <<>>, << <<0, 1>> >>, << <<0, 1>>, <<2, 3>> >> }

\* texture ids the registrar hands to Init
TextureIds == {7}

\* volumes in units of 2^-30: 1.0, and 2^-5 + 2^-30, which is no float
Volumes == {1073741824, 33554433}
Rates == {1, 2}

EngineInit(media) ==
  [media |-> media, mediaTime |-> 0, playing |-> FALSE,
   volume |-> 1073741824, rate |-> 1, looping |-> FALSE,
   window |-> <<0, 0>>]

EngSeekTo(e, t) == [e EXCEPT !.mediaTime = t]
EngStartPlayingFrom(e, t) == [e EXCEPT !.mediaTime = t, !.playing = TRUE]
EngPause(e) == [e EXCEPT !.playing = FALSE]
EngSetLooping(e, b) == [e EXCEPT !.looping = b]
EngSetVolume(e, v) == [e EXCEPT !.volume = v]
EngSetPlaybackRate(e, r) == [e EXCEPT !.rate = r]
EngGetMediaTime(e) == e.mediaTime
EngGetDuration(e) == e.media.duration
EngGetNativeVideoSize(e) == <<e.media.width, e.media.height>>
EngOnWindowUpdate(e, w, h) == [e EXCEPT !.window = <<w, h>>]

----------------------------------------------------------------------------
(* Events passed to _eventSink->Success *)

CompletedEvent == [event |-> "completed"]
BufferingEvent(buffering) ==
  [event |-> IF buffering THEN "bufferingStart" ELSE "bufferingEnd"]
InitializedEvent(e) ==
  [event |-> "initialized",
   duration |-> ToInt64(EngGetDuration(e)),
   width |-> ToInt32(EngGetNativeVideoSize(e)[1]),
   height |-> ToInt32(EngGetNativeVideoSize(e)[2])]

RECURSIVE RangeValues(_)
RangeValues(ranges) ==
  IF ranges = <<>> THEN <<>>
  ELSE << <<ToInt64(Head(ranges)[1]), ToInt64(Head(ranges)[2])>> >>
       \o RangeValues(Tail(ranges))
BufferingUpdateEvent(ranges) ==
  [event |-> "bufferingUpdate", values |-> RangeValues(ranges)]

\* _eventSink->Success(ev) behind `if (_eventSink)`
Deliver(sink, ev) == IF sink THEN <<ev>> ELSE <<>>

EventNames(evs) == [i \in 1..Len(evs) |-> evs[i].event]
CountOf(evs, name) == Cardinality({i \in 1..Len(evs) : evs[i].event = name})

----------------------------------------------------------------------------
(* Methods of VideoPlayer, as functions of the state they read *)

\* VideoPlayer::IsValid
IsValid == m_valid

\* OnPlaybackEnded without the `if (_eventSink)` test
OnPlaybackEndedEvents_NoSinkTest(sink) == <<CompletedEvent>>

\* VideoPlayer::OnPlaybackEnded
OnPlaybackEndedEvents(sink) == Deliver(sink, CompletedEvent)

\* SetBuffering with the two event names exchanged
SetBuffering_Swapped(sink, buffering) == Deliver(sink, BufferingEvent(~buffering))

\* SetBuffering that reports the event twice
SetBuffering_Twice(sink, buffering) ==
  Deliver(sink, BufferingEvent(buffering)) \o Deliver(sink, BufferingEvent(buffering))

\* VideoPlayer::SetBuffering
SetBuffering(sink, buffering) == Deliver(sink, BufferingEvent(buffering))

\* VideoPlayer::SendInitialized
SendInitialized(init, sink, e) ==
  IF init THEN Deliver(sink, InitializedEvent(e)) ELSE <<>>

\* SendBufferingUpdate that reports nothing when no range is buffered
SendBufferingUpdate_SkipEmpty(sink, ranges) ==
  IF ranges = <<>> THEN <<>> ELSE Deliver(sink, BufferingUpdateEvent(ranges))

\* VideoPlayer::SendBufferingUpdate
SendBufferingUpdate(sink, ranges) == Deliver(sink, BufferingUpdateEvent(ranges))

\* OnMediaInitialized without the `if (!isInitialized)` test
OnMediaInitializedEvents_NoFlagTest(init, sink, e) == SendInitialized(TRUE, sink, e)

\* what OnMediaInitialized leaves in isInitialized and passes to the sink
OnMediaInitializedFlag(init) == IF ~init THEN TRUE ELSE init
OnMediaInitializedEvents(init, sink, e) ==
  IF ~init THEN SendInitialized(TRUE, sink, e) ELSE <<>>

\* OnMediaStateChange that reports bufferingEnd before it initializes
OnMediaStateChangeEvents_EndFirst(init, sink, e, s, ranges) ==
  IF s = "HAVE_NOTHING"
  THEN SetBuffering(sink, TRUE) \o SendBufferingUpdate(sink, ranges)
  ELSE SetBuffering(sink, FALSE)
       \o (IF ~init THEN SendInitialized(TRUE, sink, e) ELSE <<>>)

\* what OnMediaStateChange leaves in isInitialized and passes to the sink
OnMediaStateChangeFlag(init, s) ==
  IF s = "HAVE_NOTHING" THEN init
  ELSE IF ~init THEN TRUE ELSE init
OnMediaStateChangeEvents(init, sink, e, s, ranges) ==
  IF s = "HAVE_NOTHING"
  THEN SetBuffering(sink, TRUE) \o SendBufferingUpdate(sink, ranges)
  ELSE (IF ~init THEN SendInitialized(TRUE, sink, e) ELSE <<>>)
       \o SetBuffering(sink, FALSE)

\* Dispose that pauses whether or not the session is initialized
DisposeCalls_Always(init) == << <<"Pause">> >>

\* engine calls of Dispose
DisposeCalls(init) == IF init THEN << <<"Pause">> >> ELSE <<>>

\* UpdateVideoSize that replaces only the dimension that is 0
ResizeArgs_PerDimension(ws) ==
  <<ToUint32(IF ws[1] # 0 THEN ws[1] ELSE DefaultWidth),
    ToUint32(IF ws[2] # 0 THEN ws[2] ELSE DefaultHeight)>>

\* UpdateVideoSize without the 640x480 fallback
ResizeArgs_NoDefault(ws) == <<ToUint32(ws[1]), ToUint32(ws[2])>>

\* the size UpdateVideoSize passes to OnWindowUpdate
ResizeArgs(ws) ==
  LET windowInitialized == ws[1] # 0 /\ ws[2] # 0
      width == IF windowInitialized THEN ws[1] ELSE DefaultWidth
      height == IF windowInitialized THEN ws[2] ELSE DefaultHeight
  IN  <<ToUint32(width), ToUint32(height)>>

----------------------------------------------------------------------------
(* History kept for stating properties *)

HistInit ==
  [readySeen |-> FALSE,        \* onInitialized or a ready buffering callback ran
   initializedSent |-> 0,      \* "initialized" events delivered so far (0, 1, many)
   flagRises |-> 0,            \* false->true writes of isInitialized (0, 1, many)
   disposed |-> FALSE,         \* Dispose has been called
   lastBuffering |-> "none",   \* state of the last buffering callback
   prevBuffering |-> "none",   \* if the last operation was a buffering callback:
                               \* the state of the buffering callback before it
   dropped |-> FALSE,          \* a "completed" event was raised with no listener
   lostInit |-> FALSE,         \* the session became initialized with no listener
   seekDebt |-> 0,             \* onInitialized callbacks begun on the engine threads
                               \* minus SeekTo(0) calls made by them
   pauseSeekPlay |-> <<0, 0>>] \* <<n, T>>: the last n operations were the first n
                               \* of Pause(); SeekTo(T); Play()

Cap2(n) == IF n > 2 THEN 2 ELSE n

Record(h, name, arg, initBefore, initAfter, sinkBefore, evs) ==
  [h EXCEPT
    !.readySeen = @ \/ name = "onInitialized"
                    \/ (name = "onBufferingStateChanged" /\ arg # "HAVE_NOTHING"),
    !.initializedSent = Cap2(@ + CountOf(evs, "initialized")),
    !.flagRises = Cap2(@ + (IF ~initBefore /\ initAfter THEN 1 ELSE 0)),
    !.disposed = @ \/ name = "dispose",
    !.lastBuffering = IF name = "onBufferingStateChanged" THEN arg ELSE @,
    !.prevBuffering = IF name = "onBufferingStateChanged"
                      THEN h.lastBuffering ELSE "none",
    !.dropped = @ \/ (~sinkBefore /\ name = "onPlaybackEnded"),
    !.lostInit = @ \/ (~sinkBefore /\ ~initBefore /\ initAfter),
    !.pauseSeekPlay = IF name = "pause" THEN <<1, 0>>
                      ELSE IF name = "seekTo" /\ @[1] = 1 THEN <<2, arg>>
                      ELSE IF name = "play" /\ @[1] = 2 THEN <<3, @[2]>>
                      ELSE <<0, 0>>]

----------------------------------------------------------------------------
(* Initial state: a constructed VideoPlayer, before Init *)

Init ==
  /\ isInitialized = FALSE
  /\ eventSink = FALSE
  /\ eventChannel = FALSE
  /\ streamHandler = FALSE
  /\ textureId = 0
  /\ m_valid = TRUE
  /\ m_windowSize = <<0, 0>>
  /\ m_descriptor = <<0, 0>>
  /\ \E media \in Media : engine = EngineInit(media)
  /\ op = <<"new", 0>>
  /\ emitted = <<>>
  /\ engineCalls = <<>>
  /\ hist = HistInit
  /\ m_buffer_mutex = NoThread
  /\ m_compositionLock = NoThread
  /\ mta = NoThread
  /\ fpc = [t \in GeometryThreads |-> "idle"]
  /\ flocal = [t \in GeometryThreads |-> NoLocals]
  /\ cpc = [t \in CallbackThreads |-> <<>>]
  /\ hazard = "none"

----------------------------------------------------------------------------
(* Spec: one action per method of the session *)

\* an operation that touches neither the surface nor the threads
Step(name, arg, init2, sink2, evs, calls, engine2) ==
  /\ isInitialized' = init2
  /\ eventSink' = sink2
  /\ engine' = engine2
  /\ op' = <<name, arg>>
  /\ emitted' = evs
  /\ engineCalls' = calls
  /\ hist' = Record(hist, name, arg, isInitialized, init2, eventSink, evs)
  /\ UNCHANGED <<m_valid, surfaceVars, frameVars, raceVars>>

\* VideoPlayer::Init
VideoPlayerInit(id) ==
  /\ ~streamHandler
  /\ textureId' = id
  /\ eventChannel' = TRUE
  /\ streamHandler' = TRUE
  /\ Step("init", id, isInitialized, eventSink, <<>>, <<>>, engine)

\* an on-listen handler that replays "initialized" to a late listener
OnListen_Replay ==
  /\ streamHandler
  /\ Step("onListen", 0, isInitialized, TRUE,
          SendInitialized(isInitialized, TRUE, engine), <<>>, engine)
  /\ UNCHANGED <<eventChannel, streamHandler, textureId>>

\* the on-listen handler installed by Init
OnListen ==
  /\ streamHandler
  /\ Step("onListen", 0, isInitialized, TRUE, <<>>, <<>>, engine)
  /\ UNCHANGED <<eventChannel, streamHandler, textureId>>

\* the on-cancel handler installed by Init
OnCancel ==
  /\ streamHandler
  /\ Step("onCancel", 0, isInitialized, FALSE, <<>>, <<>>, engine)
  /\ UNCHANGED <<eventChannel, streamHandler, textureId>>

OnMediaInitialized ==
  /\ Step("onInitialized", 0,
          OnMediaInitializedFlag(isInitialized), eventSink,
          OnMediaInitializedEvents(isInitialized, eventSink, EngSeekTo(engine, 0)),
          << <<"SeekTo", 0>> >>,
          EngSeekTo(engine, 0))
  /\ UNCHANGED <<eventChannel, streamHandler, textureId>>

\* OnMediaError that reports the error to the listener
OnMediaError_Reports(error) ==
  /\ Step("onError", error, isInitialized, eventSink,
          Deliver(eventSink, [event |-> "error"]), <<>>, engine)
  /\ UNCHANGED <<eventChannel, streamHandler, textureId>>

OnMediaError(error) ==
  /\ Step("onError", error, isInitialized, eventSink, <<>>, <<>>, engine)
  /\ UNCHANGED <<eventChannel, streamHandler, textureId>>

OnMediaStateChange(bufferingState) ==
  /\ \E ranges \in BufferedRanges :
       Step("onBufferingStateChanged", bufferingState,
            OnMediaStateChangeFlag(isInitialized, bufferingState), eventSink,
            OnMediaStateChangeEvents(isInitialized, eventSink, engine,
                                     bufferingState, ranges),
            <<>>, engine)
  /\ UNCHANGED <<eventChannel, streamHandler, textureId>>

OnPlaybackEnded ==
  /\ Step("onPlaybackEnded", 0, isInitialized, eventSink,
          OnPlaybackEndedEvents(eventSink), <<>>, engine)
  /\ UNCHANGED <<eventChannel, streamHandler, textureId>>

Dispose ==
  /\ eventChannel' = FALSE
  /\ Step("dispose", 0, isInitialized, eventSink, <<>>,
          DisposeCalls(isInitialized),
          IF isInitialized THEN EngPause(engine) ELSE engine)
  /\ UNCHANGED <<streamHandler, textureId>>

SetLooping(isLooping) ==
  /\ Step("setLooping", isLooping, isInitialized, eventSink, <<>>,
          << <<"SetLooping", isLooping>> >>, EngSetLooping(engine, isLooping))
  /\ UNCHANGED <<eventChannel, streamHandler, textureId>>

SetVolume(volume) ==
  /\ Step("setVolume", volume, isInitialized, eventSink, <<>>,
          << <<"SetVolume", ToFloat(volume)>> >>,
          EngSetVolume(engine, ToFloat(volume)))
  /\ UNCHANGED <<eventChannel, streamHandler, textureId>>

SetPlaybackSpeed(playbackSpeed) ==
  /\ Step("setPlaybackSpeed", playbackSpeed, isInitialized, eventSink, <<>>,
          << <<"SetPlaybackRate", playbackSpeed>> >>,
          EngSetPlaybackRate(engine, playbackSpeed))
  /\ UNCHANGED <<eventChannel, streamHandler, textureId>>

\* Play that restarts the media from the beginning
Play_FromZero ==
  /\ Step("play", 0, isInitialized, eventSink, <<>>,
          << <<"StartPlayingFrom", 0>> >>,
          EngStartPlayingFrom(engine, 0))
  /\ UNCHANGED <<eventChannel, streamHandler, textureId>>

Play ==
  /\ Step("play", 0, isInitialized, eventSink, <<>>,
          << <<"StartPlayingFrom", EngGetMediaTime(engine)>> >>,
          EngStartPlayingFrom(engine, EngGetMediaTime(engine)))
  /\ UNCHANGED <<eventChannel, streamHandler, textureId>>

Pause ==
  /\ Step("pause", 0, isInitialized, eventSink, <<>>,
          << <<"Pause">> >>, EngPause(engine))
  /\ UNCHANGED <<eventChannel, streamHandler, textureId>>

GetPosition ==
  /\ Step("getPosition", EngGetMediaTime(engine), isInitialized, eventSink,
          <<>>, <<>>, engine)
  /\ UNCHANGED <<eventChannel, streamHandler, textureId>>

SeekTo(seek) ==
  /\ Step("seekTo", seek, isInitialized, eventSink, <<>>,
          << <<"SeekTo", seek>> >>, EngSeekTo(engine, seek))
  /\ UNCHANGED <<eventChannel, streamHandler, textureId>>

\* the engine's clock: media time advances while it plays
EngineAdvance ==
  /\ engine.playing /\ engine.mediaTime < MaxPos
  /\ Step("engineAdvance", 0, isInitialized, eventSink, <<>>, <<>>,
          [engine EXCEPT !.mediaTime = @ + 1])
  /\ UNCHANGED <<eventChannel, streamHandler, textureId>>

Next ==
  \/ \E id \in TextureIds : VideoPlayerInit(id)
  \/ OnListen
  \/ OnCancel
  \/ OnMediaInitialized
  \/ \E error \in {1, 2} : OnMediaError(error)
  \/ \E s \in BufferingState : OnMediaStateChange(s)
  \/ OnPlaybackEnded
  \/ Dispose
  \/ \E b \in BOOLEAN : SetLooping(b)
  \/ \E v \in Volumes : SetVolume(v)
  \/ \E r \in Rates : SetPlaybackSpeed(r)
  \/ Play
  \/ Pause
  \/ GetPosition
  \/ \E t \in 0..MaxPos : SeekTo(t)
  \/ EngineAdvance

Spec == Init /\ [][Next]_vars

----------------------------------------------------------------------------
(* SpecFrame: frame requests and geometry refreshes, statement by statement *)

FrameStep(t, from, to) ==
  /\ fpc[t] = from
  /\ fpc' = [fpc EXCEPT ![t] = to]

\* the renderer calls ObtainDescriptorCallback(width, height)
ObtainDescriptorCallback(t, size) ==
  /\ t \in FrameThreads
  /\ FrameStep(t, "idle", "lock_buffer")
  /\ flocal' = [flocal EXCEPT ![t] = [NoLocals EXCEPT !.req = size]]
  /\ UNCHANGED <<sessionVars, surfaceVars, engine, obsVars, raceVars,
                 m_buffer_mutex, m_compositionLock, mta>>

\* std::lock_guard that does not wait for the mutex
LockBuffer_NoWait(t) ==
  /\ FrameStep(t, "lock_buffer", "update_descriptor")
  /\ m_buffer_mutex' = t
  /\ UNCHANGED <<sessionVars, surfaceVars, engine, obsVars, raceVars,
                 m_compositionLock, mta, flocal>>

\* std::lock_guard<std::mutex> buffer_lock(m_buffer_mutex)
LockBuffer(t) ==
  /\ m_buffer_mutex = NoThread
  /\ FrameStep(t, "lock_buffer", "update_descriptor")
  /\ m_buffer_mutex' = t
  /\ UNCHANGED <<sessionVars, surfaceVars, engine, obsVars, raceVars,
                 m_compositionLock, mta, flocal>>

\* m_mediaEngineWrapper->UpdateSurfaceDescriptor(width, height, ..., m_descriptor)
UpdateSurfaceDescriptor(t) ==
  LET args == <<ToUint32(flocal[t].req[1]), ToUint32(flocal[t].req[2])>>
  IN  /\ FrameStep(t, "update_descriptor", "lock_composition")
      /\ m_descriptor' = args
      /\ flocal' = [flocal EXCEPT ![t].descArgs = args]
      /\ UNCHANGED <<sessionVars, m_windowSize, engine, obsVars, raceVars,
                     m_buffer_mutex, m_compositionLock, mta>>

\* the UI thread calls UpdateVideoSize directly
UpdateVideoSize(t) ==
  /\ t = UiThread
  /\ FrameStep(t, "idle", "lock_composition")
  /\ flocal' = [flocal EXCEPT ![t] = NoLocals]
  /\ UNCHANGED <<sessionVars, surfaceVars, engine, obsVars, raceVars,
                 m_buffer_mutex, m_compositionLock, mta>>

\* auto lock = m_compositionLock.lock()
LockComposition(t) ==
  /\ m_compositionLock = NoThread
  /\ FrameStep(t, "lock_composition", "get_window_rect")
  /\ m_compositionLock' = t
  /\ flocal' = [flocal EXCEPT ![t].before = m_windowSize]
  /\ UNCHANGED <<sessionVars, surfaceVars, engine, obsVars, raceVars,
                 m_buffer_mutex, mta>>

\* if (GetWindowRect(m_window, &rect)) m_windowSize = {width, height}
GetWindowRect(t, ok, rect) ==
  /\ FrameStep(t, "get_window_rect", "resize")
  /\ m_windowSize' = IF ok THEN <<ToFloat(rect[1]), ToFloat(rect[2])>>
                     ELSE m_windowSize
  /\ flocal' = [flocal EXCEPT ![t].rectOk = ok,
                              ![t].rect = IF ok THEN rect ELSE <<0, 0>>]
  /\ UNCHANGED <<sessionVars, m_descriptor, engine, obsVars, raceVars,
                 m_buffer_mutex, m_compositionLock, mta>>

\* width/height are computed and RunSyncInMTA is entered: the closure waits
\* for the MTA context
RunSyncInMTA(t) ==
  /\ FrameStep(t, "resize", "mta_wait")
  /\ flocal' = [flocal EXCEPT ![t].resizeArgs = ResizeArgs(m_windowSize)]
  /\ UNCHANGED <<sessionVars, surfaceVars, engine, obsVars, raceVars,
                 m_buffer_mutex, m_compositionLock, mta>>

\* the MTA context takes the closure
MtaStart(t) ==
  /\ mta = NoThread
  /\ FrameStep(t, "mta_wait", "mta_run")
  /\ mta' = t
  /\ UNCHANGED <<sessionVars, surfaceVars, engine, obsVars, raceVars,
                 m_buffer_mutex, m_compositionLock, flocal>>

\* the closure runs m_mediaEngineWrapper->OnWindowUpdate(width, height) and
\* the caller is released
MtaRun(t) ==
  /\ mta = t
  /\ FrameStep(t, "mta_run", "unlock_composition")
  /\ engine' = EngOnWindowUpdate(engine, flocal[t].resizeArgs[1],
                                 flocal[t].resizeArgs[2])
  /\ mta' = NoThread
  /\ UNCHANGED <<sessionVars, surfaceVars, obsVars, raceVars,
                 m_buffer_mutex, m_compositionLock, flocal>>

\* UpdateVideoSize that returns without releasing m_compositionLock
UnlockComposition_Leak(t) ==
  /\ FrameStep(t, "unlock_composition",
               IF t \in FrameThreads THEN "unlock_buffer" ELSE "idle")
  /\ UNCHANGED <<sessionVars, surfaceVars, engine, obsVars, raceVars,
                 m_buffer_mutex, m_compositionLock, mta, flocal>>

\* UpdateVideoSize returns: `lock` goes out of scope
UnlockComposition(t) ==
  /\ FrameStep(t, "unlock_composition",
               IF t \in FrameThreads THEN "unlock_buffer" ELSE "idle")
  /\ m_compositionLock' = NoThread
  /\ UNCHANGED <<sessionVars, surfaceVars, engine, obsVars, raceVars,
                 m_buffer_mutex, mta, flocal>>

\* return &m_descriptor: buffer_lock goes out of scope
UnlockBuffer(t) ==
  /\ FrameStep(t, "unlock_buffer", "idle")
  /\ m_buffer_mutex' = NoThread
  /\ flocal' = [flocal EXCEPT ![t] = NoLocals]
  /\ UNCHANGED <<sessionVars, surfaceVars, engine, obsVars, raceVars,
                 m_compositionLock, mta>>

NextFrame ==
  \/ \E t \in FrameThreads, size \in FrameSizes : ObtainDescriptorCallback(t, size)
  \/ \E t \in FrameThreads : LockBuffer(t)
  \/ \E t \in FrameThreads : UpdateSurfaceDescriptor(t)
  \/ UpdateVideoSize(UiThread)
  \/ \E t \in GeometryThreads : LockComposition(t)
  \/ \E t \in GeometryThreads, ok \in BOOLEAN, rect \in WindowRects :
       GetWindowRect(t, ok, rect)
  \/ \E t \in GeometryThreads : RunSyncInMTA(t)
  \/ \E t \in GeometryThreads : MtaStart(t)
  \/ \E t \in GeometryThreads : MtaRun(t)
  \/ \E t \in GeometryThreads : UnlockComposition(t)
  \/ \E t \in FrameThreads : UnlockBuffer(t)

SpecFrame == Init /\ [][NextFrame]_vars

\* Scheduling: a thread that can run its next statement eventually runs it,
\* a thread waiting for a lock that keeps being released eventually gets it,
\* and the MTA context eventually takes and completes every closure.
FrameFairness ==
  /\ \A t \in FrameThreads :
       /\ SF_vars(LockBuffer(t))
       /\ WF_vars(UpdateSurfaceDescriptor(t))
       /\ WF_vars(UnlockBuffer(t))
  /\ \A t \in GeometryThreads :
       /\ SF_vars(LockComposition(t))
       /\ WF_vars(\E ok \in BOOLEAN : GetWindowRect(t, ok, <<800, 600>>))
       /\ WF_vars(RunSyncInMTA(t))
       /\ WF_vars(MtaStart(t))
       /\ WF_vars(MtaRun(t))
       /\ WF_vars(UnlockComposition(t))

\* No branch of ObtainDescriptorCallback or UpdateVideoSize depends on a
\* size, so termination is checked with one frame size and one rectangle.
NextFrameFair ==
  \/ \E t \in FrameThreads : ObtainDescriptorCallback(t, <<1920, 1080>>)
  \/ \E t \in FrameThreads : LockBuffer(t)
  \/ \E t \in FrameThreads : UpdateSurfaceDescriptor(t)
  \/ UpdateVideoSize(UiThread)
  \/ \E t \in GeometryThreads : LockComposition(t)
  \/ \E t \in GeometryThreads, ok \in BOOLEAN : GetWindowRect(t, ok, <<800, 600>>)
  \/ \E t \in GeometryThreads : RunSyncInMTA(t)
  \/ \E t \in GeometryThreads : MtaStart(t)
  \/ \E t \in GeometryThreads : MtaRun(t)
  \/ \E t \in GeometryThreads : UnlockComposition(t)
  \/ \E t \in FrameThreads : UnlockBuffer(t)

SpecFrameFair == Init /\ [][NextFrameFair]_vars /\ FrameFairness

----------------------------------------------------------------------------
(* SpecRace: the engine's callbacks run on engine threads, one step per     *)
(* read or write of isInitialized and _eventSink, while the host thread     *)
(* runs Init and the listen/cancel handlers.  cpc[t] holds the statements   *)
(* thread t still has to run, as <<statement, argument>> pairs.             *)

\* the process is running (a null _eventSink has not been dereferenced fatally)
Alive == hazard # "crashed"

\* handlers in which OnMediaInitialized tests the flag before it seeks
HandlerBody_TestFirst(h) ==
  IF h = "onInitialized"
    THEN << <<"test_initialized", 0>>, <<"seek_to_0", 0>> >>
  ELSE IF h = "onPlaybackEnded"
    THEN << <<"check_sink", CompletedEvent>> >>
  ELSE IF h = "HAVE_NOTHING"
    THEN << <<"check_sink", BufferingEvent(TRUE)>>, <<"buffered_ranges", 0>> >>
  ELSE << <<"test_initialized", 0>>, <<"check_sink", BufferingEvent(FALSE)>> >>

\* statements of the three handlers, up to their first branch
HandlerBody(h) ==
  IF h = "onInitialized"
    THEN << <<"seek_to_0", 0>>, <<"test_initialized", 0>> >>
  ELSE IF h = "onPlaybackEnded"
    THEN << <<"check_sink", CompletedEvent>> >>
  ELSE IF h = "HAVE_NOTHING"
    THEN << <<"check_sink", BufferingEvent(TRUE)>>, <<"buffered_ranges", 0>> >>
  ELSE << <<"test_initialized", 0>>, <<"check_sink", BufferingEvent(FALSE)>> >>

\* thread t runs the statement at the head of cpc[t] and goes on with
\* `next` followed by the rest
Statement(t, label, next) ==
  /\ Alive
  /\ cpc[t] # <<>>
  /\ Head(cpc[t])[1] = label
  /\ cpc' = [cpc EXCEPT ![t] = next \o Tail(cpc[t])]
  /\ op' = <<label, 0>>

\* the engine invokes a callback on thread t
EngineCallback(t, h) ==
  /\ Alive
  /\ cpc[t] = <<>>
  /\ cpc' = [cpc EXCEPT ![t] = HandlerBody(h)]
  /\ op' = <<h, 0>>
  /\ emitted' = <<>>
  /\ hist' = [hist EXCEPT
               !.readySeen = @ \/ h \in {"onInitialized", "HAVE_ENOUGH"},
               !.seekDebt = IF h = "onInitialized" THEN Cap2(@ + 1) ELSE @]
  /\ UNCHANGED <<sessionVars, surfaceVars, engine, engineCalls, frameVars, hazard>>

\* m_mediaEngineWrapper->SeekTo(0)
StmtSeekTo0(t) ==
  /\ Statement(t, "seek_to_0", <<>>)
  /\ engine' = EngSeekTo(engine, 0)
  /\ engineCalls' = << <<"SeekTo", 0>> >>
  /\ emitted' = <<>>
  /\ hist' = [hist EXCEPT !.seekDebt = @ - 1]
  /\ UNCHANGED <<sessionVars, surfaceVars, frameVars, hazard>>

\* if (!this->isInitialized)
StmtTestInitialized(t) ==
  /\ Statement(t, "test_initialized",
               IF ~isInitialized
               THEN << <<"set_initialized", 0>>, <<"send_initialized", 0>> >>
               ELSE <<>>)
  /\ emitted' = <<>>
  /\ UNCHANGED <<sessionVars, surfaceVars, engine, engineCalls, hist,
                 frameVars, hazard>>

\* this->isInitialized = true
StmtSetInitialized(t) ==
  /\ Statement(t, "set_initialized", <<>>)
  /\ isInitialized' = TRUE
  /\ emitted' = <<>>
  /\ hist' = [hist EXCEPT
               !.flagRises = Cap2(@ + (IF ~isInitialized THEN 1 ELSE 0)),
               !.lostInit = @ \/ (~isInitialized /\ ~eventSink)]
  /\ UNCHANGED <<eventSink, eventChannel, streamHandler, textureId, m_valid,
                 surfaceVars, engine, engineCalls, frameVars, hazard>>

\* SendInitialized: if (isInitialized) { build the event ...
StmtSendInitialized(t) ==
  /\ Statement(t, "send_initialized",
               IF isInitialized
               THEN << <<"check_sink", InitializedEvent(engine)>> >>
               ELSE <<>>)
  /\ emitted' = <<>>
  /\ UNCHANGED <<sessionVars, surfaceVars, engine, engineCalls, hist,
                 frameVars, hazard>>

\* SendBufferingUpdate: GetBufferedRanges and the list of values
StmtBufferedRanges(t) ==
  /\ \E ranges \in BufferedRanges :
       Statement(t, "buffered_ranges",
                 << <<"check_sink", BufferingUpdateEvent(ranges)>> >>)
  /\ emitted' = <<>>
  /\ UNCHANGED <<sessionVars, surfaceVars, engine, engineCalls, hist,
                 frameVars, hazard>>

\* if (this->_eventSink)
StmtCheckSink(t) ==
  /\ Statement(t, "check_sink",
               IF eventSink THEN << <<"use_sink", Head(cpc[t])[2]>> >> ELSE <<>>)
  /\ emitted' = <<>>
  /\ UNCHANGED <<sessionVars, surfaceVars, engine, engineCalls, hist,
                 frameVars, hazard>>

\* _eventSink->Success(event).  When the cancel handler has reset _eventSink
\* since the test, this dereferences a null pointer: the process may die, or
\* the call may go through on the released sink.
StmtUseSink(t, outcome) ==
  /\ Statement(t, "use_sink", <<>>)
  /\ IF eventSink
     THEN /\ outcome = "none"
          /\ emitted' = <<Head(cpc[t])[2]>>
          /\ hazard' = hazard
     ELSE /\ outcome # "none"
          /\ emitted' = IF outcome = "used_released_sink"
                        THEN <<Head(cpc[t])[2]>> ELSE <<>>
          /\ hazard' = outcome
  /\ hist' = [hist EXCEPT !.initializedSent =
                            Cap2(@ + CountOf(emitted', "initialized"))]
  /\ UNCHANGED <<sessionVars, surfaceVars, engine, engineCalls, frameVars>>

\* the host thread
HostInit(id) == Alive /\ VideoPlayerInit(id)
HostListen == Alive /\ OnListen
HostCancel == Alive /\ OnCancel

NextRace ==
  \/ \E id \in TextureIds : HostInit(id)
  \/ HostListen
  \/ HostCancel
  \/ \E t \in CallbackThreads,
        h \in {"onInitialized", "onPlaybackEnded"} \cup BufferingState :
       EngineCallback(t, h)
  \/ \E t \in CallbackThreads : StmtSeekTo0(t)
  \/ \E t \in CallbackThreads : StmtTestInitialized(t)
  \/ \E t \in CallbackThreads : StmtSetInitialized(t)
  \/ \E t \in CallbackThreads : StmtSendInitialized(t)
  \/ \E t \in CallbackThreads : StmtBufferedRanges(t)
  \/ \E t \in CallbackThreads : StmtCheckSink(t)
  \/ \E t \in CallbackThreads,
        outcome \in {"none", "crashed", "used_released_sink"} :
       StmtUseSink(t, outcome)

SpecRace == Init /\ [][NextRace]_vars

----------------------------------------------------------------------------
(* SpecStmt: the same statements, with the engine delivering its callbacks  *)
(* one after another on a single thread.                                    *)

SeqThread == <<"engine", 1>>

NextStmt ==
  \/ \E id \in TextureIds : HostInit(id)
  \/ HostListen
  \/ HostCancel
  \/ \E h \in {"onInitialized", "onPlaybackEnded"} \cup BufferingState :
       EngineCallback(SeqThread, h)
  \/ StmtSeekTo0(SeqThread)
  \/ StmtTestInitialized(SeqThread)
  \/ StmtSetInitialized(SeqThread)
  \/ StmtSendInitialized(SeqThread)
  \/ StmtBufferedRanges(SeqThread)
  \/ StmtCheckSink(SeqThread)
  \/ \E outcome \in {"none", "crashed", "used_released_sink"} :
       StmtUseSink(SeqThread, outcome)

SpecStmt == Init /\ [][NextStmt]_vars

----------------------------------------------------------------------------
(* Properties of Spec *)

CallbackOps == {"onInitialized", "onBufferingStateChanged", "onPlaybackEnded"}
TransportOps == {"play", "pause", "seekTo", "setVolume", "setPlaybackSpeed",
                 "setLooping"}

\* C1: over any sequence of callbacks, commands and listener attach/detach,
\* "initialized" is delivered at most once and only in the step that takes
\* isInitialized from false to true; the flag is never true before an
\* onInitialized or a ready (non HAVE_NOTHING) buffering callback has run,
\* and a HAVE_NOTHING callback leaves the flag as it was.
C1_InitializedAtMostOnce ==
  [][ /\ hist'.initializedSent <= 1
      /\ (isInitialized' => hist'.readySeen)
      /\ (hist'.initializedSent > 0 => hist'.readySeen)
      /\ (CountOf(emitted', "initialized") > 0
            => ~isInitialized /\ isInitialized'
               /\ CountOf(emitted', "initialized") = 1)
      /\ (op' = <<"onBufferingStateChanged", "HAVE_NOTHING">>
            => isInitialized' = isInitialized) ]_vars

\* a second onInitialized ran after "initialized" had been delivered, and
\* delivered nothing
C1_Witness ==
  /\ hist.initializedSent = 1
  /\ op = <<"onInitialized", 0>>
  /\ emitted = <<>>
  /\ eventSink

\* C2 as stated: buffering callbacks that occur while isInitialized is false
\* deliver neither "bufferingStart" nor "bufferingEnd".
C2_NoBufferingEventsBeforeInit ==
  [][ (~isInitialized /\ op'[1] = "onBufferingStateChanged")
        => /\ CountOf(emitted', "bufferingStart") = 0
           /\ CountOf(emitted', "bufferingEnd") = 0 ]_vars

\* C2 amended: a buffering callback that arrives while isInitialized is false
\* and a listener is attached delivers "bufferingStart" then "bufferingUpdate"
\* and leaves the flag false (HAVE_NOTHING), or sets the flag and delivers
\* "initialized" then "bufferingEnd" (any other state); "bufferingEnd" is
\* never delivered by a step that leaves the flag false.
C2_BufferingEventsBeforeInit ==
  [][ /\ (~isInitialized /\ eventSink /\ op'[1] = "onBufferingStateChanged")
           => IF op'[2] = "HAVE_NOTHING"
              THEN /\ EventNames(emitted') = <<"bufferingStart", "bufferingUpdate">>
                   /\ ~isInitialized'
              ELSE /\ EventNames(emitted') = <<"initialized", "bufferingEnd">>
                   /\ isInitialized'
      /\ (CountOf(emitted', "bufferingEnd") > 0 => isInitialized') ]_vars

\* a HAVE_NOTHING callback delivered "bufferingStart" to an uninitialized session
C2_Witness ==
  /\ ~isInitialized
  /\ op = <<"onBufferingStateChanged", "HAVE_NOTHING">>
  /\ CountOf(emitted, "bufferingStart") = 1

\* C3: in an initialized session with a listener attached, a HAVE_NOTHING
\* callback delivers exactly one "bufferingStart" (and no "bufferingEnd"), and
\* a callback with another state that follows a HAVE_NOTHING callback
\* delivers exactly one "bufferingEnd" (and no "bufferingStart").
C3_BufferingEventsAfterInit ==
  [][ (isInitialized /\ eventSink /\ op'[1] = "onBufferingStateChanged")
        => IF op'[2] = "HAVE_NOTHING"
           THEN /\ CountOf(emitted', "bufferingStart") = 1
                /\ CountOf(emitted', "bufferingEnd") = 0
           ELSE hist.lastBuffering = "HAVE_NOTHING"
                  => /\ CountOf(emitted', "bufferingEnd") = 1
                     /\ CountOf(emitted', "bufferingStart") = 0 ]_vars

\* an initialized session left buffering: exactly "bufferingEnd" was delivered
C3_Witness ==
  /\ op = <<"onBufferingStateChanged", "HAVE_ENOUGH">>
  /\ hist.prevBuffering = "HAVE_NOTHING"
  /\ hist.flagRises = 1
  /\ EventNames(emitted) = <<"bufferingEnd">>

\* C4: no operation delivers an event while the listener is detached, attaching
\* a listener delivers nothing (nothing was queued), and onPlaybackEnded with a
\* listener attached delivers exactly one "completed".
C4_NoEventWhileDetached ==
  [][ /\ (~eventSink => emitted' = <<>>)
      /\ (op'[1] = "onListen" => emitted' = <<>>)
      /\ (op'[1] = "onPlaybackEnded"
            => emitted' = IF eventSink THEN <<[event |-> "completed"]>> ELSE <<>>) ]_vars

\* after a "completed" was dropped, a reattached listener got exactly one
C4_Witness ==
  /\ hist.dropped
  /\ eventSink
  /\ op = <<"onPlaybackEnded", 0>>
  /\ emitted = <<[event |-> "completed"]>>

\* C5 as stated: an engine callback that arrives after Dispose delivers no
\* event, issues no engine call and changes no session state.
C5_CallbackAfterDisposeIsNoOp ==
  [][ (hist.disposed /\ op'[1] \in CallbackOps)
        => /\ emitted' = <<>>
           /\ engineCalls' = <<>>
           /\ engine' = engine
           /\ isInitialized' = isInitialized ]_vars

\* C6 as stated: a transport command issued after Dispose is not forwarded to
\* the engine, whose state stays as it was.
C6_CommandAfterDisposeIsNoOp ==
  [][ (hist.disposed /\ op'[1] \in TransportOps)
        => /\ engineCalls' = <<>>
           /\ engine' = engine ]_vars

\* C11: Play starts the engine from the engine's current media time and
\* leaves that time as it was; after Pause(); SeekTo(T); Play() the engine
\* was started from T and its media time is T.
C11_PlayFromMediaTime ==
  [][ /\ (op'[1] = "play"
            => /\ engineCalls' = << <<"StartPlayingFrom", engine.mediaTime>> >>
               /\ engine'.mediaTime = engine.mediaTime
               /\ engine'.playing)
      /\ (hist'.pauseSeekPlay[1] = 3
            => /\ engineCalls' = << <<"StartPlayingFrom", hist'.pauseSeekPlay[2]>> >>
               /\ engine'.mediaTime = hist'.pauseSeekPlay[2]) ]_vars

\* Pause(); SeekTo(2); Play() started the engine from 2
C11_Witness ==
  /\ hist.pauseSeekPlay = <<3, 2>>
  /\ op = <<"play", 0>>
  /\ engineCalls = << <<"StartPlayingFrom", 2>> >>
  /\ engine.playing

\* C12: Dispose pauses the engine exactly when isInitialized is true at the
\* call, leaves _eventChannel released, and does not change isInitialized.
C12_DisposePausesIffInitialized ==
  [][ op'[1] = "dispose"
        => /\ engineCalls' = (IF isInitialized THEN << <<"Pause">> >> ELSE <<>>)
           /\ (isInitialized => ~engine'.playing)
           /\ (~isInitialized => engine' = engine)
           /\ ~eventChannel'
           /\ isInitialized' = isInitialized ]_vars

\* an uninitialized session with an open channel and a playing engine was
\* disposed: no Pause was issued and the channel is released
C12_Witness ==
  /\ op = <<"dispose", 0>>
  /\ ~isInitialized
  /\ streamHandler
  /\ ~eventChannel
  /\ engine.playing
  /\ engineCalls = <<>>

\* C13: an onError callback delivers no event, issues no engine call and
\* changes nothing of the session (isInitialized, listener, channel, window
\* size, engine, history), so what follows runs as if it had not occurred.
C13_ErrorChangesNothing ==
  [][ op'[1] = "onError"
        => /\ emitted' = <<>>
           /\ engineCalls' = <<>>
           /\ isInitialized' = isInitialized
           /\ eventSink' = eventSink
           /\ eventChannel' = eventChannel
           /\ m_windowSize' = m_windowSize
           /\ engine' = engine
           /\ [hist' EXCEPT !.prevBuffering = "none", !.pauseSeekPlay = <<0, 0>>]
                = [hist EXCEPT !.prevBuffering = "none", !.pauseSeekPlay = <<0, 0>>] ]_vars

\* an error was reported to an initialized session with a listener attached
C13_Witness ==
  /\ op[1] = "onError"
  /\ isInitialized
  /\ eventSink
  /\ emitted = <<>>

\* C17: once the session has become initialized while no listener was
\* attached, isInitialized is true and no "initialized" event has been or is
\* ever delivered, whatever is attached, called back or commanded later.
C17_LostInitializedNeverDelivered ==
  hist.lostInit => (isInitialized /\ hist.initializedSent = 0)

\* a listener attached after the lost initialization saw a further
\* onInitialized pass without an event
C17_Witness ==
  /\ hist.lostInit
  /\ eventSink
  /\ op = <<"onInitialized", 0>>
  /\ emitted = <<>>

\* C19: with a listener attached, a buffering callback with a state other
\* than HAVE_NOTHING delivers exactly one "bufferingEnd", as its last event,
\* whatever the previous buffering callback was, and a HAVE_NOTHING callback
\* delivers exactly "bufferingStart" followed by "bufferingUpdate", also when
\* the previous callback was HAVE_NOTHING too.
C19_BufferingEventsUnconditional ==
  [][ (eventSink /\ op'[1] = "onBufferingStateChanged")
        => IF op'[2] = "HAVE_NOTHING"
           THEN EventNames(emitted') = <<"bufferingStart", "bufferingUpdate">>
           ELSE /\ CountOf(emitted', "bufferingEnd") = 1
                /\ CountOf(emitted', "bufferingStart") = 0
                /\ emitted'[Len(emitted')].event = "bufferingEnd" ]_vars

\* two callbacks in a row with a state other than HAVE_NOTHING: the second
\* delivered another "bufferingEnd"
C19_Witness ==
  /\ op = <<"onBufferingStateChanged", "HAVE_ENOUGH">>
  /\ hist.prevBuffering = "HAVE_ENOUGH"
  /\ EventNames(emitted) = <<"bufferingEnd">>

\* C10: in an uninitialized session with a listener attached, a buffering
\* callback with a state other than HAVE_NOTHING that follows a HAVE_NOTHING
\* callback delivers "initialized" (with the engine's duration and native
\* size) and then "bufferingEnd", and leaves isInitialized true.
C10_ImplicitInitThenBufferingEnd ==
  [][ (/\ ~isInitialized /\ eventSink
       /\ hist.lastBuffering = "HAVE_NOTHING"
       /\ op'[1] = "onBufferingStateChanged" /\ op'[2] # "HAVE_NOTHING")
        => /\ emitted' = << [event |-> "initialized",
                             duration |-> engine.media.duration,
                             width |-> engine.media.width,
                             height |-> engine.media.height],
                            [event |-> "bufferingEnd"] >>
           /\ isInitialized' ]_vars

\* HAVE_NOTHING then HAVE_ENOUGH initialized a session that holds a clip
C10_Witness ==
  /\ op = <<"onBufferingStateChanged", "HAVE_ENOUGH">>
  /\ hist.prevBuffering = "HAVE_NOTHING"
  /\ EventNames(emitted) = <<"initialized", "bufferingEnd">>
  /\ emitted[1].duration = 5000
  /\ isInitialized

----------------------------------------------------------------------------
(* Properties of SpecFrame *)

\* positions of a frame request between taking and releasing m_buffer_mutex
InFrameRequest == {"update_descriptor", "lock_composition", "get_window_rect",
                   "resize", "mta_wait", "mta_run", "unlock_composition",
                   "unlock_buffer"}
\* positions after UpdateSurfaceDescriptor was called
AfterDescriptor == InFrameRequest \ {"update_descriptor"}
\* positions after OnWindowUpdate was called
AfterResize == {"unlock_composition", "unlock_buffer"}

\* C7: at most one frame request at a time is between its descriptor update
\* and the end of its engine resize, and a request that is there (so also the
\* one that writes m_descriptor) holds m_buffer_mutex.
C7_FrameRequestsSerialized ==
  /\ Cardinality({t \in FrameThreads : fpc[t] \in InFrameRequest}) <= 1
  /\ \A t \in FrameThreads : fpc[t] \in InFrameRequest => m_buffer_mutex = t

\* one request is inside the engine resize while another waits for the mutex
C7_Witness ==
  \E t, u \in FrameThreads :
    /\ t # u
    /\ fpc[t] = "mta_run"
    /\ fpc[u] = "lock_buffer"

\* C8: a frame request (w, h) passes exactly (w, h) to the descriptor update
\* and afterwards passes the display size to the engine resize: the size of
\* the window rectangle when it is available and not degenerate, and
\* (640, 480) when the rectangle is unavailable and no window size has been
\* recorded; never the requested (w, h).
C8_ResizeUsesDisplaySize ==
  \A t \in FrameThreads :
    /\ fpc[t] \in AfterDescriptor
         => /\ flocal[t].descArgs = flocal[t].req
            /\ m_descriptor = flocal[t].req
    /\ fpc[t] \in AfterResize
         => /\ (fpc[t] = "unlock_composition"
                  => engine.window = flocal[t].resizeArgs)
            /\ flocal[t].resizeArgs # flocal[t].req
            /\ (flocal[t].rectOk /\ flocal[t].rect[1] # 0 /\ flocal[t].rect[2] # 0
                  => flocal[t].resizeArgs = flocal[t].rect)
            /\ (~flocal[t].rectOk /\ flocal[t].before = <<0, 0>>
                  => flocal[t].resizeArgs = <<640, 480>>)

\* a 1920x1080 frame request with no window rectangle resized to 640x480
C8_Witness ==
  \E t \in FrameThreads :
    /\ fpc[t] = "unlock_composition"
    /\ flocal[t].req = <<1920, 1080>>
    /\ m_descriptor = <<1920, 1080>>
    /\ ~flocal[t].rectOk
    /\ flocal[t].before = <<0, 0>>
    /\ engine.window = <<640, 480>>

\* C20: whenever a geometry refresh has computed the size for the engine
\* resize, neither dimension is 0: it is (640, 480) when the recorded width
\* or the recorded height is 0, and the recorded size otherwise.
C20_ResizeNeverZero ==
  \A t \in GeometryThreads :
    fpc[t] \in {"mta_wait", "mta_run", "unlock_composition"}
      => /\ flocal[t].resizeArgs[1] # 0
         /\ flocal[t].resizeArgs[2] # 0
         /\ flocal[t].resizeArgs =
              IF m_windowSize[1] = 0 \/ m_windowSize[2] = 0
              THEN <<640, 480>> ELSE m_windowSize
         /\ (fpc[t] = "unlock_composition" => engine.window = flocal[t].resizeArgs)

\* a window of width 0 and height 600 was resized to 640x480
C20_Witness ==
  \E t \in GeometryThreads :
    /\ fpc[t] = "unlock_composition"
    /\ m_windowSize = <<0, 600>>
    /\ engine.window = <<640, 480>>

\* C18: locks are taken in one order - m_buffer_mutex (frame requests only),
\* then m_compositionLock, then the MTA context - so a thread never waits for
\* a lock while it holds a later one, and every frame request and every
\* direct geometry refresh that has begun eventually returns.
C18_FrameRequestsReturn ==
  /\ [](\A t \in GeometryThreads :
          /\ (fpc[t] = "lock_buffer" => m_compositionLock # t /\ mta # t)
          /\ (fpc[t] = "lock_composition" => mta # t)
          /\ (m_compositionLock = t /\ t \in FrameThreads => m_buffer_mutex = t)
          /\ (mta = t => m_compositionLock = t))
  /\ \A t \in GeometryThreads : (fpc[t] # "idle") ~> (fpc[t] = "idle")

\* a frame request waits for m_buffer_mutex, its holder waits for
\* m_compositionLock, and the UI thread's closure runs in the MTA context
C18_Witness ==
  \E t, u \in FrameThreads :
    /\ fpc[t] = "lock_buffer"
    /\ fpc[u] = "lock_composition"
    /\ fpc[UiThread] = "mta_run"

\* C15 as stated: the geometry refresh writes m_windowSize only when the
\* window rectangle is available and neither its width nor its height is 0;
\* otherwise m_windowSize keeps the value it had.
C15_WindowSizeKeptWhenDegenerate ==
  [][ \A t \in GeometryThreads :
        (fpc[t] = "get_window_rect" /\ fpc'[t] = "resize")
          => m_windowSize' =
               IF /\ flocal'[t].rectOk
                  /\ flocal'[t].rect[1] # 0
                  /\ flocal'[t].rect[2] # 0
               THEN flocal'[t].rect
               ELSE m_windowSize ]_vars

----------------------------------------------------------------------------
(* Properties of SpecRace *)

\* C9 as stated: whatever the interleaving of the cancel handler with an
\* emission on an engine thread, the emission never uses _eventSink after it
\* has been cleared: the event is delivered to the attached listener or
\* dropped.
C9_NoUseOfClearedListener == hazard = "none"

----------------------------------------------------------------------------
(* Properties of SpecStmt *)

\* C14: every onInitialized callback starts with SeekTo(0), whatever
\* isInitialized is, so each finished callback has made exactly one seek;
\* only a callback that finds the flag false sets it, "initialized" is
\* delivered at most once, and when it is delivered the seek of that
\* callback has already been made.
C14_SeekRepeatsEventDoesNot ==
  [][ /\ (op' = <<"onInitialized", 0>>
            => Head(cpc'[SeqThread]) = <<"seek_to_0", 0>>)
      /\ (op'[1] = "seek_to_0"
            => /\ engineCalls' = << <<"SeekTo", 0>> >>
               /\ engine'.mediaTime = 0
               /\ isInitialized' = isInitialized)
      /\ hist'.seekDebt \in {0, 1}
      /\ (cpc'[SeqThread] = <<>> => hist'.seekDebt = 0)
      /\ (op'[1] = "set_initialized" => ~isInitialized /\ isInitialized')
      /\ hist'.initializedSent <= 1
      /\ (CountOf(emitted', "initialized") > 0 => hist'.seekDebt = 0) ]_vars

\* after "initialized" had been delivered, another onInitialized made its
\* seek, found the flag set and ended without an event
C14_Witness ==
  /\ hist.initializedSent = 1
  /\ op = <<"test_initialized", 0>>
  /\ cpc[SeqThread] = <<>>
  /\ engineCalls = << <<"SeekTo", 0>> >>
  /\ eventSink

\* C16 as stated: when onInitialized and a ready buffering callback run
\* concurrently on two threads, isInitialized still rises exactly once and
\* "initialized" is delivered at most once.
C16_ConcurrentInitializedOnce ==
  hazard = "none" => (hist.initializedSent <= 1 /\ hist.flagRises <= 1)

====
